---- MODULE Spec2Model ----
(***************************************************************************)
(* inireader: reads one named value from one section of an ini file.       *)
(* A std::string is a sequence of one-character strings; indexes in the    *)
(* helpers are 0-based as in the C++ source (At, Substr).                   *)
(***************************************************************************)
EXTENDS Integers, Sequences, FiniteSets, TLC

\* ------------------------------------------------------------------ bounds
MaxLines == 3

\* longest string handed to unquote on its own
MaxStr == 4

\* size_t is unsigned: a negative difference wraps to a value larger than any
\* string length. The width is narrowed to 30 bits (TLC's integers are 32
\* bits wide); every length of the model is far below it, as in the build.
SizeTModulus == 2^30

SizeT(x) == x % SizeTModulus

Npos == SizeT(-1)

Min(a, b) == IF a < b THEN a ELSE b

\* ---------------------------------------------------------- std::string
At(str, i) == str[i + 1]

Substr(str, pos, n) == SubSeq(str, pos + 1, Min(Len(str), pos + n))

SubstrFrom(str, pos) == SubSeq(str, pos + 1, Len(str))

RECURSIVE FindFirstNotOf(_, _, _)
FindFirstNotOf(str, chars, i) ==
    IF i >= Len(str) THEN Npos
    ELSE IF At(str, i) \notin chars THEN i
    ELSE FindFirstNotOf(str, chars, i + 1)

RECURSIVE FindLastNotOf(_, _, _)
FindLastNotOf(str, chars, i) ==
    IF i < 0 THEN Npos
    ELSE IF At(str, i) \notin chars THEN i
    ELSE FindLastNotOf(str, chars, i - 1)

RECURSIVE FindFirstOf(_, _, _)
FindFirstOf(str, c, i) ==
    IF i >= Len(str) THEN Npos
    ELSE IF At(str, i) = c THEN i
    ELSE FindFirstOf(str, c, i + 1)

ToLower(c) ==
    CASE c = "S" -> "s"
      [] c = "T" -> "t"
      [] c = "K" -> "k"
      [] OTHER -> c

\* ---------------------------------------------------------------- iequals
IEquals(a, b) ==
    IF Len(a) # Len(b) THEN FALSE
    ELSE \A i \in 1..Len(a) : ToLower(a[i]) = ToLower(b[i])

\* What iequals writes to std::cout: one line when the sizes differ.
IEqualsOut(a, b) ==
    IF Len(a) # Len(b)
    THEN << <<"\"">> \o a \o <<"\"", " and \"">> \o b \o <<"\" have different lengths">> >>
    ELSE <<>>

\* ------------------------------------------------------------------- trim
Trim(str) ==
    LET first == FindFirstNotOf(str, {" ", "\t"}, 0)
    IN  IF first = Npos THEN str
        ELSE LET last == FindLastNotOf(str, {" ", "\t"}, Len(str) - 1)
             IN  Substr(str, first, last - first + 1)

\* ---------------------------------------------------------------- unquote
Unquote(str) ==
    IF str # <<>> /\ At(str, 0) = "\"" /\ At(str, Len(str) - 1) = "\""
    THEN Substr(str, 1, SizeT(Len(str) - 2))
    ELSE str

\* ------------------------------------------------------------ Entry class
EmptyEntry == [n |-> <<>>, v |-> <<>>]

\* valid() asking for a name only
Valid_NameOnly(en) == en.n # <<>>

Valid(en) == en.n # <<>> /\ en.v # <<>>

\* ----------------------------------------------------------- std::getline
\* The file is the sequence d of its lines; t says whether the last line
\* ends with a line terminator. p is the number of lines already read.
\* Reading the last, unterminated line sets eofbit; reading past the end
\* erases the string and sets eofbit|failbit. good is "no state bit set".
StdGetline(d, t, p) ==
    IF p < Len(d)
    THEN [line |-> d[p + 1], pos |-> p + 1, good |-> ~(p + 1 = Len(d) /\ ~t)]
    ELSE [line |-> <<>>, pos |-> p, good |-> FALSE]

\* --------------------------------------------------------------- get_line
RECURSIVE GetLineLoop(_, _, _, _, _)
GetLineLoop(d, t, p, g, ln) ==
    IF ~g THEN [line |-> ln, pos |-> p, good |-> g, ret |-> 0]
    ELSE LET r == StdGetline(d, t, p)
         IN  IF r.line = <<>>
             THEN GetLineLoop(d, t, r.pos, r.good, r.line)
             ELSE LET tl == Trim(r.line)
                  IN  IF tl = <<>>
                      THEN GetLineLoop(d, t, r.pos, r.good, tl)
                      ELSE IF At(tl, 0) = ";"
                      THEN GetLineLoop(d, t, r.pos, r.good, tl)
                      ELSE [line |-> tl, pos |-> r.pos, good |-> r.good,
                            ret |-> Len(tl)]

GetLine(d, t, p, g) == GetLineLoop(d, t, p, g, <<>>)

\* ------------------------------------------------------------- is_section
\* the rest of the line after the '[' and not the section name's length
IsSectionSub_ToEnd(str, section_name_length) == SubstrFrom(str, 1)

\* std::string sub(str.substr(1, section_name_length))
IsSectionSub(str, section_name_length) == Substr(str, 1, section_name_length)

IsSection(str, section_name) ==
    IF str # <<>> /\ section_name # <<>>
    THEN LET section_name_length == Len(section_name)
         IN  IF Len(str) >= section_name_length + 2
             THEN IF At(str, 0) = "[" /\ At(str, section_name_length + 1) = "]"
                  THEN IEquals(IsSectionSub(str, section_name_length), section_name)
                  ELSE FALSE
             ELSE FALSE
    ELSE FALSE

\* What is_section writes to std::cout: what its call to iequals writes.
IsSectionOut(str, section_name) ==
    IF str # <<>> /\ section_name # <<>>
    THEN LET section_name_length == Len(section_name)
         IN  IF Len(str) >= section_name_length + 2
             THEN IF At(str, 0) = "[" /\ At(str, section_name_length + 1) = "]"
                  THEN IEqualsOut(IsSectionSub(str, section_name_length), section_name)
                  ELSE <<>>
             ELSE <<>>
    ELSE <<>>

\* ---------------------------------------------------- parse_section_entry
\* The scan for '=' of the trimmed line: i is the index reached.
RECURSIVE ScanName(_, _)
ScanName(s, i) == IF At(s, i) # "=" THEN ScanName(s, i + 1) ELSE i

\* parse_section_entry without the test that the line holds a '=': the scan
\* of a line without '=' runs to the terminator at index Len(s) and beyond
ParseSectionEntry_NoTest(ln) ==
    LET s == Trim(ln)
    IN  IF s # <<>>
        THEN IF FindFirstOf(s, "=", 0) # Npos
             THEN LET i == ScanName(s, 0)
                  IN  [ret |-> TRUE, scan |-> 0..i,
                       e |-> [n |-> Trim(Substr(s, 0, i)),
                              v |-> Unquote(Trim(SubstrFrom(s, i + 1)))]]
             ELSE [ret |-> TRUE, scan |-> 0..Len(s),
                   e |-> [n |-> s, v |-> <<>>]]
        ELSE [ret |-> FALSE, scan |-> {}, e |-> EmptyEntry]

\* ret: the value returned; e: the Entry set; scan: the indexes of the
\* trimmed line read by the scan for '='.
ParseSectionEntry(ln) ==
    LET idx == FindFirstOf(ln, "=", 0)
    IN  IF idx # Npos
        THEN LET s == Trim(ln)
             IN  IF s # <<>>
                 THEN LET i == ScanName(s, 0)
                      IN  [ret |-> TRUE, scan |-> 0..i,
                           e |-> [n |-> Trim(Substr(s, 0, i)),
                                  v |-> Unquote(Trim(SubstrFrom(s, i + 1)))]]
                 ELSE [ret |-> FALSE, scan |-> {}, e |-> EmptyEntry]
        ELSE [ret |-> FALSE, scan |-> {}, e |-> EmptyEntry]

\* int ret(0)
RetInitial == 0

\* ret = 1: wrong number of arguments
RetUsage == 1

\* ret = 3: the file could not be opened
RetOpenFailed == 3

\* ------------------------------------------------------------ input space
\* The lines a file of the model is made of.
Lines ==
    { <<"[", "S", "]">>,                                   \* [S]
      <<"[", "T", "]">>,                                   \* [T]
      <<"k", "=", "v">>,                                   \* k=v
      <<" ", "K", "\t", "=", " ", "\"", "w", "\"", " ">>,  \* ' K<tab>= "w" '
      <<"k", "=">>,                                        \* k=
      <<"k", "=", "\"", "\"">>,                            \* k=""
      <<";", "k", "=", "v">>,                              \* ;k=v
      <<"#", "k", "=", "v">>,                              \* #k=v
      <<>>,                                                \* empty line
      <<" ", "\t">>,                                       \* whitespace only
      <<"x">>,                                             \* x
      <<"[", "S", "]", "x">>,                              \* [S]x
      <<"[", " ", "S", " ", "]">> }                        \* [ S ]

\* argv[2]: the section, in the other case than the header [S]
SectionArgs == { <<"s">> }

\* argv[3]
NameArgs == { <<"k">>, <<"K">>, <<";", "k">>, <<"#", "k">> }

Docs == UNION { [1..n -> Lines] : n \in 0..MaxLines }

\* ------------------------------------------------------------------ state
VARIABLES
    argc,        \* number of command line arguments, program name included
    openable,    \* whether argv[1] names a file that can be opened for reading
    section,     \* argv[2]
    name,        \* argv[3]
    doc,         \* the lines of the file
    terminated,  \* whether the last line of the file ends with a line terminator
    pos,         \* number of lines of the file read so far
    good,        \* f.good(): no state bit of the stream is set
    bad,         \* f.bad(): a read of the stream has failed
    line,        \* main's line
    done,        \* main's done
    in_section,  \* main's in_section
    e,           \* main's Entry e
    stdout,      \* the values written to std::cout, one per "<< std::endl"
    stderr,      \* the messages written to std::cerr
    ret,         \* main's ret
    pc           \* "main": entered; "loop": at the while test; "returned"

vars == <<argc, openable, section, name, doc, terminated, pos, good, bad,
          line, done, in_section, e, stdout, stderr, ret, pc>>

args == <<argc, openable, section, name, doc, terminated>>

\* A file whose last line has no terminator has a non-empty last line
\* (otherwise it is the file with one line less, terminated).
FileOk(d, t) == t \/ (Len(d) > 0 /\ d[Len(d)] # <<>>)

Init ==
    /\ argc \in {3, 4}
    /\ openable \in BOOLEAN
    /\ section \in SectionArgs
    /\ name \in NameArgs
    /\ doc \in Docs
    /\ terminated \in BOOLEAN
    /\ FileOk(doc, terminated)
    \* the file matters only to a run that opens it
    /\ (argc # 4 \/ ~openable) =>
          /\ doc = <<>> /\ terminated
          /\ name = <<"k">>
    /\ argc # 4 => openable
    /\ pos = 0
    /\ good = FALSE
    /\ bad = FALSE
    /\ line = <<>>
    /\ done = FALSE
    /\ in_section = FALSE
    /\ e = EmptyEntry
    /\ stdout = <<>>
    /\ stderr = <<>>
    /\ ret = RetInitial
    /\ pc = "main"

\* ------------------------------------------------------------------- main
\* argc != 4
Usage ==
    /\ pc = "main"
    /\ argc # 4
    /\ stderr' = Append(stderr, "Invalid usage")
    /\ ret' = RetUsage
    /\ pc' = "returned"
    /\ UNCHANGED <<args, bad, pos, good, line, done, in_section, e, stdout>>

\* std::ifstream f(path) and !f.good()
OpenFailed ==
    /\ pc = "main"
    /\ argc = 4
    /\ ~openable
    /\ stderr' = Append(stderr, "Couldn't open file")
    /\ ret' = RetOpenFailed
    /\ pc' = "returned"
    /\ UNCHANGED <<args, bad, pos, good, line, done, in_section, e, stdout>>

\* std::ifstream f(path) and f.good()
Open ==
    /\ pc = "main"
    /\ argc = 4
    /\ openable
    /\ good' = TRUE
    /\ pc' = "loop"
    /\ UNCHANGED <<args, bad, pos, line, done, in_section, e, stdout, stderr, ret>>

\* e.valid() && e.name() == name
Matched(en, k) == Valid(en) /\ en.n = k

\* the section is left but the loop is not ended
EndSection_NotDone(m) == [m EXCEPT !.in_section = FALSE]

\* A line beginning with '[' while in the target section: the section is
\* over and the result was not found.
EndSection(m) == [m EXCEPT !.in_section = FALSE, !.done = TRUE]

\* the value is printed but the loop is not ended
PrintValue_NotDone(m, en) == [m EXCEPT !.stdout = Append(m.stdout, en.v)]

\* std::cout << e.value() << std::endl; done = true
PrintValue(m, en) == [m EXCEPT !.stdout = Append(m.stdout, en.v), !.done = TRUE]

\* The body of the while loop of main, on main's locals and the stream:
\* m = [pos, good, line, done, in_section, e, stdout].
WhileBody(d, t, s, k, m) ==
    LET r == GetLine(d, t, m.pos, m.good)
        m1 == [m EXCEPT !.line = r.line, !.pos = r.pos, !.good = r.good]
    IN  IF r.line = <<>>
        THEN m1
        ELSE IF At(r.line, 0) = "[" /\ m.in_section
        THEN EndSection(m1)
        ELSE IF m.in_section
        THEN LET p == ParseSectionEntry(r.line)
                 m2 == [m1 EXCEPT !.e = p.e]
             IN  IF Matched(p.e, k) THEN PrintValue(m2, p.e) ELSE m2
        ELSE LET m3 == [m1 EXCEPT !.stdout = m1.stdout \o IsSectionOut(r.line, s)]
             IN  IF IsSection(r.line, s)
                 THEN [m3 EXCEPT !.in_section = TRUE]
                 ELSE m3

\* main's locals when the file has been opened
Opened ==
    [pos |-> 0, good |-> TRUE, line |-> <<>>, done |-> FALSE,
     in_section |-> FALSE, e |-> EmptyEntry, stdout |-> <<>>]

\* The while loop of main run to its end: the locals when the test fails.
RECURSIVE WhileLoop(_, _, _, _, _)
WhileLoop(d, t, s, k, m) ==
    IF ~m.done /\ m.good
    THEN WhileLoop(d, t, s, k, WhileBody(d, t, s, k, m))
    ELSE m

\* What a run on file (d, t) with arguments s and k writes to std::cout.
Output(d, t, s, k) == WhileLoop(d, t, s, k, Opened).stdout

\* main as a function of its inputs: the exit status and std::cout.
Main(ac, op, d, t, s, k) ==
    IF ac = 4
    THEN IF op
         THEN [ret |-> RetInitial, stdout |-> Output(d, t, s, k)]
         ELSE [ret |-> RetOpenFailed, stdout |-> <<>>]
    ELSE [ret |-> RetUsage, stdout |-> <<>>]

Locals ==
    [pos |-> pos, good |-> good, line |-> line, done |-> done,
     in_section |-> in_section, e |-> e, stdout |-> stdout]

\* One iteration of the while loop of main.
LoopBody ==
    /\ pc = "loop"
    /\ ~done /\ good
    /\ LET m == WhileBody(doc, terminated, section, name, Locals)
       IN  /\ pos' = m.pos
           /\ good' = m.good
           /\ line' = m.line
           /\ done' = m.done
           /\ in_section' = m.in_section
           /\ e' = m.e
           /\ stdout' = m.stdout
    /\ UNCHANGED <<args, bad, stderr, ret, pc>>

\* The while test fails: main returns ret.
LoopExit ==
    /\ pc = "loop"
    /\ ~(~done /\ good)
    /\ pc' = "returned"
    /\ UNCHANGED <<args, bad, pos, good, line, done, in_section, e, stdout, stderr, ret>>

Next == Usage \/ OpenFailed \/ Open \/ LoopBody \/ LoopExit

Spec == Init /\ [][Next]_vars

\* --------------------------------------------------- a source that fails
\* An iteration of the while loop in which the read of the next line fails
\* (badbit, as for a path that names a directory): std::getline erases the
\* line, get_line returns 0, main finds the line empty and continues.
ReadError ==
    /\ pc = "loop"
    /\ ~done /\ good
    /\ pos < Len(doc)
    /\ line' = <<>>
    /\ good' = FALSE
    /\ bad' = TRUE
    /\ UNCHANGED <<args, pos, done, in_section, e, stdout, stderr, ret, pc>>

NextReadError == Next \/ ReadError

\* the program on a file whose reads may fail
SpecReadError == Init /\ [][NextReadError]_vars

\* ------------------------------------------------ unquote on its own
\* The strings unquote is applied to: quotes, a letter and a space, up to
\* MaxStr characters.
UnquoteChars == {"\"", "a", " "}

UnquoteArgs == UNION { [1..n -> UnquoteChars] : n \in 0..MaxStr }

InitUnquote ==
    /\ argc = 4
    /\ openable = TRUE
    /\ section = <<"s">>
    /\ name = <<"k">>
    /\ doc = <<>>
    /\ terminated = TRUE
    /\ pos = 0
    /\ good = FALSE
    /\ bad = FALSE
    /\ line \in UnquoteArgs
    /\ done = FALSE
    /\ in_section = FALSE
    /\ e = EmptyEntry
    /\ stdout = <<>>
    /\ stderr = <<>>
    /\ ret = RetInitial
    /\ pc = "unquote"

\* e.set_value(unquote(line))
CallUnquote ==
    /\ pc = "unquote"
    /\ e' = [e EXCEPT !.v = Unquote(line)]
    /\ pc' = "unquoted"
    /\ UNCHANGED <<args, bad, pos, good, line, done, in_section, stdout, stderr, ret>>

NextUnquote == CallUnquote

SpecUnquote == InitUnquote /\ [][NextUnquote]_vars

\* ------------------------------------- parse_section_entry on its own
\* The lines parse_section_entry is applied to: '=', a letter and a space,
\* up to MaxStr characters; the Entry holds the pair of an earlier line.
ParseChars == {"=", "a", " "}

ParseArgs == UNION { [1..n -> ParseChars] : n \in 0..MaxStr }

InitParse ==
    /\ argc = 4
    /\ openable = TRUE
    /\ section = <<"s">>
    /\ name \in {<<>>, <<"a">>}
    /\ doc = <<>>
    /\ terminated = TRUE
    /\ pos = 0
    /\ good = FALSE
    /\ bad = FALSE
    /\ line \in ParseArgs
    /\ done = FALSE
    /\ in_section = TRUE
    /\ e = [n |-> <<"a">>, v |-> <<"a">>]
    /\ stdout = <<>>
    /\ stderr = <<>>
    /\ ret = RetInitial
    /\ pc = "parse"

\* parse_section_entry(line, e)
CallParse ==
    /\ pc = "parse"
    /\ e' = ParseSectionEntry(line).e
    /\ pc' = "parsed"
    /\ UNCHANGED <<args, bad, pos, good, line, done, in_section, stdout, stderr, ret>>

NextParse == CallParse

SpecParse == InitParse /\ [][NextParse]_vars

\* ----------------------------------------------------------------- claims
\* The vocabulary of the claims, stated on the lines of the document.
Ws == {" ", "\t"}

RECURSIVE StripLeft(_)
StripLeft(s) == IF s # <<>> /\ Head(s) \in Ws THEN StripLeft(Tail(s)) ELSE s

RECURSIVE StripRight(_)
StripRight(s) ==
    IF s # <<>> /\ s[Len(s)] \in Ws THEN StripRight(SubSeq(s, 1, Len(s) - 1)) ELSE s

\* s without its leading and trailing spaces and tabs
Strip(s) == StripRight(StripLeft(s))

\* s with every ASCII letter in lower case
Fold(s) == [i \in 1..Len(s) |-> ToLower(s[i])]

EqIgnoringCase(a, b) == Fold(a) = Fold(b)

\* s without one surrounding pair of double quotes
OnePairRemoved(s) ==
    IF Len(s) >= 2 /\ s[1] = "\"" /\ s[Len(s)] = "\""
    THEN SubSeq(s, 2, Len(s) - 1)
    ELSE s

IsBlankLine(l) == Strip(l) = <<>>

IsCommentLine(l) == ~IsBlankLine(l) /\ Head(Strip(l)) \in {";", "#"}

IsHeaderLine(l) ==
    LET s == Strip(l) IN Len(s) >= 3 /\ s[1] = "[" /\ s[Len(s)] = "]"

HeaderName(l) == LET s == Strip(l) IN Strip(SubSeq(s, 2, Len(s) - 1))

EqAt(l) == CHOOSE i \in 1..Len(l) : l[i] = "=" /\ \A j \in 1..(i - 1) : l[j] # "="

EntryKey(l) == Strip(SubSeq(l, 1, EqAt(l) - 1))

EntryValue(l) == OnePairRemoved(Strip(SubSeq(l, EqAt(l) + 1, Len(l))))

IsEntryLine(l) ==
    /\ ~IsBlankLine(l) /\ ~IsCommentLine(l) /\ ~IsHeaderLine(l)
    /\ \E i \in 1..Len(l) : l[i] = "="
    /\ EntryKey(l) # <<>>

\* a line that is no comment, no blank line, no header and no entry
IsMalformedLine(l) ==
    ~IsBlankLine(l) /\ ~IsCommentLine(l) /\ ~IsHeaderLine(l) /\ ~IsEntryLine(l)

SetMin(S) == CHOOSE x \in S : \A y \in S : x <= y

\* index of the first header of d named s ignoring case, 0 when there is none
TargetHeader(d, s) ==
    LET H == { h \in 1..Len(d) :
                 IsHeaderLine(d[h]) /\ EqIgnoringCase(HeaderName(d[h]), s) }
    IN  IF H = {} THEN 0 ELSE SetMin(H)

\* index of the first header after line h, Len(d) + 1 when there is none
SectionEnd(d, h) ==
    LET H == { j \in (h + 1)..Len(d) : IsHeaderLine(d[j]) }
    IN  IF H = {} THEN Len(d) + 1 ELSE SetMin(H)

\* indexes of the entry lines with key k ignoring case in the target section
Matches(d, s, k) ==
    LET h == TargetHeader(d, s)
    IN  IF h = 0 THEN {}
        ELSE { j \in (h + 1)..(SectionEnd(d, h) - 1) :
                 IsEntryLine(d[j]) /\ EqIgnoringCase(EntryKey(d[j]), k) }

\* the run opened the file and main has returned
LookupEnded == pc = "returned" /\ argc = 4 /\ openable

\* the first entry of the target section with key k has a non-empty value
FirstMatchValued(d, s, k) ==
    /\ Matches(d, s, k) # {}
    /\ EntryValue(d[SetMin(Matches(d, s, k))]) # <<>>

\* C1: when the target section holds an entry with the requested key (both
\* names compared ignoring case) the lookup outputs that entry's trimmed,
\* unquoted value. Stated for a non-empty value, the case that does not
\* depend on whether an empty value is a match (C9).
C1_FoundValue ==
    (LookupEnded /\ FirstMatchValued(doc, section, name)) =>
        stdout = << EntryValue(doc[SetMin(Matches(doc, section, name))]) >>

\* C3: when the target section holds no entry with the requested key, or no
\* header names the requested section, the lookup outputs no value.
C3_NotFound ==
    (LookupEnded /\ Matches(doc, section, name) = {}) => stdout = <<>>

\* a with the case of its letters changed where ToLower tells two cases apart
SwapCase(a) ==
    [i \in 1..Len(a) |->
        CASE a[i] = "S" -> "s" [] a[i] = "s" -> "S"
          [] a[i] = "K" -> "k" [] a[i] = "k" -> "K"
          [] OTHER -> a[i]]

\* C2: changing the ASCII case of the section and key arguments does not
\* change what the lookup outputs.
C2_CaseInvariant ==
    LookupEnded =>
        \A s2 \in {section, SwapCase(section)}, k2 \in {name, SwapCase(name)} :
            stdout = Output(doc, terminated, s2, k2)

\* The outcome of a run with ac arguments, file openable or not, output out.
Outcome(ac, op, out) ==
    IF ac # 4 THEN "UsageError"
    ELSE IF ~op THEN "SourceError"
    ELSE IF out # <<>> THEN "Found"
    ELSE "NotFound"

\* C4: the exit statuses of not found, file not opened and wrong argument
\* count are non-zero, differ from each other and from the status of Found.
C4_DistinctStatuses ==
    pc = "returned" =>
        /\ Outcome(argc, openable, stdout) # "Found" => ret # 0
        /\ \A ac2 \in {3, 4}, op2 \in BOOLEAN, k2 \in NameArgs :
              LET r2 == Main(ac2, op2, doc, terminated, section, k2)
              IN  Outcome(ac2, op2, r2.stdout) # Outcome(argc, openable, stdout)
                      => r2.ret # ret

\* C5: at most one value is output, and of several entries of the target
\* section with the requested key the first one's value is output. Stated,
\* as C1, for a first entry with a non-empty value.
C5_FirstWins ==
    /\ Len(stdout) <= 1
    /\ (/\ LookupEnded
        /\ Cardinality(Matches(doc, section, name)) >= 2
        /\ FirstMatchValued(doc, section, name)) =>
          stdout = << EntryValue(doc[SetMin(Matches(doc, section, name))]) >>

\* the loop body has just run and get_line delivered the line now in `line`
Delivered == pc = "loop" /\ pos' > pos /\ line' # <<>>

\* C6: inside the target section a header line, whatever its name, ends the
\* lookup without a value, and nothing is output afterwards: an entry with
\* the requested key after that header is never returned.
C6_HeaderEndsLookup ==
    [][ /\ (Delivered /\ in_section /\ IsHeaderLine(line')) =>
              (done' /\ ~in_section' /\ stdout' = <<>>)
        /\ (done /\ ~in_section /\ stdout = <<>>) => stdout' = <<>> ]_vars

\* C6 has happened: a header (named as the target section, or not) closed the
\* target section, an entry with the requested key stands after it, and main
\* has returned without output.
C6_Witness ==
    /\ LookupEnded /\ done /\ stdout = <<>>
    /\ \E j \in 2..Len(doc) :
          /\ pos = j /\ IsHeaderLine(doc[j])
          /\ IsSection(doc[j - 1], section)
          /\ \E i \in (j + 1)..Len(doc) :
                IsEntryLine(doc[i]) /\ EntryKey(doc[i]) = name
                    /\ EntryValue(doc[i]) # <<>>

\* the lines of d that are neither blank nor comments
Kept(d) == SelectSeq(d, LAMBDA l : ~IsBlankLine(l) /\ ~IsCommentLine(l))

\* C7: blank, whitespace-only and comment lines (';' or '#') are skipped
\* wherever they stand: the lookup gives what it gives on the document
\* without them.
C7_SkippedLines ==
    LookupEnded => stdout = Output(Kept(doc), TRUE, section, name)

\* C8: unquote(v) is v without its first and last character when v has at
\* least 2 characters and both are the double quote, and v itself otherwise.
C8_Unquote == pc = "unquoted" => e.v = OnePairRemoved(line)

\* C9 as stated: an entry of the target section with the requested key and
\* an empty value is a match and ends the lookup Found with the empty string.
C9_EmptyValueFound ==
    [][ (/\ Delivered /\ in_section
         /\ IsEntryLine(line') /\ EqIgnoringCase(EntryKey(line'), name)
         /\ EntryValue(line') = <<>>) =>
            (done' /\ stdout' = << <<>> >>) ]_vars

\* C9 amended: an entry of the target section with the requested key and an
\* empty value is no match: nothing is output for it, no run ever outputs
\* the empty string, and unless the line begins with '[' the scan stays in
\* the section and goes on.
C9_EmptyValueSkipped ==
    [][ /\ (/\ Delivered /\ in_section
            /\ IsEntryLine(line') /\ EqIgnoringCase(EntryKey(line'), name)
            /\ EntryValue(line') = <<>>) =>
               /\ stdout' = stdout
               /\ At(line', 0) # "[" => (~done' /\ in_section')
        /\ \A i \in 1..Len(stdout') : stdout'[i] # <<>> ]_vars

\* C9's case has happened: the entry with the requested key and an empty
\* value was passed over in the target section and a later entry was found.
C9_Witness ==
    /\ LookupEnded /\ Len(stdout) = 1
    /\ \E j \in 2..(Len(doc) - 1) :
          /\ IsSection(doc[j - 1], section)
          /\ IsEntryLine(doc[j]) /\ EntryKey(doc[j]) = name
          /\ EntryValue(doc[j]) = <<>>
          /\ pos = j + 1
          /\ stdout[1] = EntryValue(doc[j + 1])

\* C10: inside the target section a malformed line (no comment, no header,
\* no entry with '=' and a key) is skipped: the state is unchanged and the
\* scan continues.
C10_MalformedSkipped ==
    [][ (Delivered /\ in_section /\ IsMalformedLine(line')) =>
            (~done' /\ in_section' /\ stdout' = stdout) ]_vars

\* C11: a failure of the line source (the file cannot be opened, or a read
\* fails after some lines were delivered) ends the run with the error message
\* and the status of SourceError, never as NotFound or a silent success.
C11_SourceError ==
    (pc = "returned" /\ argc = 4 /\ (~openable \/ bad)) =>
        (stderr = <<"Couldn't open file">> /\ ret = RetOpenFailed)

\* C12: while seeking, a line opens the target section exactly when, trimmed,
\* it begins with '[', ends with ']' and the trimmed text between the
\* brackets is the requested section ignoring case.
C12_HeaderOpensSection ==
    [][ (Delivered /\ ~in_section /\ ~done) =>
            (in_section' <=>
                (IsHeaderLine(line') /\ EqIgnoringCase(HeaderName(line'), section))) ]_vars

\* C13: done is terminal: once a value has been output or the target section
\* has been closed by a header, no further line is read, the state does not
\* change any more and nothing more is output.
C13_DoneTerminal ==
    [][ (stdout # <<>> \/ done) =>
            /\ pos' = pos /\ line' = line
            /\ done' = done /\ in_section' = in_section
            /\ stdout' = stdout ]_vars

\* C13 has happened: main has returned after a match with lines of the
\* document left unread.
C13_Witness ==
    LookupEnded /\ done /\ stdout # <<>> /\ pos < Len(doc) /\ good

\* every line of the document not yet read is blank or a ';' comment
RestSkippable ==
    \A i \in (pos + 1)..Len(doc) :
        IsBlankLine(doc[i]) \/ (IsCommentLine(doc[i]) /\ Head(Strip(doc[i])) = ";")

\* what is left to do: the lines not yet read, and the loop still running
Variant == 2 * (Len(doc) - pos) + (IF good /\ ~done THEN 1 ELSE 0)

\* C14: the lookup terminates: every iteration of the loop reads at least
\* one line or ends the loop, so the variant decreases with every iteration,
\* and when the stream holds no further line (nothing, or only blank and
\* ';' comment lines, terminated or not) the lookup ends without output.
C14_Terminates ==
    [][ /\ (pc = "loop" /\ pc' = "loop") =>
              (Variant' < Variant /\ (pos' > pos \/ done' \/ ~good'))
        /\ (pc = "loop" /\ ~done /\ RestSkippable) => stdout' = stdout ]_vars

\* C15: after every call of get_line, `line` is empty and 0 is returned, or
\* `line` holds the next line of the input that is not empty after trimming
\* and does not begin with ';', trimmed, and its length is returned.
C15_GetLine ==
    (pc = "loop" /\ ~done /\ good) =>
        LET r == GetLine(doc, terminated, pos, good)
        IN  \/ r.line = <<>> /\ r.ret = 0
            \/ /\ Strip(r.line) # <<>> /\ Head(r.line) # ";"
               /\ r.ret = Len(r.line)
               /\ r.pos > pos /\ r.line = Strip(doc[r.pos])
               /\ \A i \in (pos + 1)..(r.pos - 1) :
                     IsBlankLine(doc[i]) \/ Head(Strip(doc[i])) = ";"

\* C16: while seeking, a line that is no header leaves the lookup state
\* unchanged and produces no output: an entry before the target section's
\* header, outside any section or in another section, is never returned.
C16_SeekingIgnoresCandidates ==
    [][ (Delivered /\ ~in_section /\ ~done /\ ~IsHeaderLine(line')) =>
            (~in_section' /\ ~done' /\ stdout' = stdout) ]_vars

\* the line holds no '='
NoEq(l) == \A i \in 1..Len(l) : l[i] # "="

\* C17: parse_section_entry never reads past the end of its input: every
\* index read by the scan for '=' is below the length of the trimmed line,
\* and a line with no '=' returns false with the Entry cleared, so it never
\* matches.
C17_ParseInBounds ==
    pc = "parsed" =>
        LET r == ParseSectionEntry(line)
        IN  /\ e = r.e
            /\ \A j \in r.scan : j < Len(Strip(line))
            /\ NoEq(line) => (~r.ret /\ e = EmptyEntry /\ ~Matched(e, name))

\* C17's case has happened: a non-empty line without '=' has been parsed and
\* the Entry of the earlier line is cleared.
C17_Witness ==
    pc = "parsed" /\ NoEq(line) /\ Strip(line) # <<>> /\ e = EmptyEntry

\* C18: iequals is only called with two strings of equal length, so the
\* line "have different lengths" is never written: whenever is_section is
\* applied to a line it writes nothing, and standard output is either empty
\* or exactly the value of the matching entry, after which the loop is over.
C18_NoDiagnostic ==
    [][ /\ (Delivered /\ ~in_section) =>
              /\ IsSectionOut(line', section) = <<>>
              /\ (At(line', 0) = "[" /\ in_section') =>
                    Len(IsSectionSub(line', Len(section))) = Len(section)
        /\ \/ stdout' = <<>>
           \/ done' /\ Matched(e', name) /\ stdout' = <<e'.v>> ]_vars

\* C18's case has happened: is_section has called iequals on a header, which
\* opened the section, and the value of a matching entry has been written.
C18_Witness == in_section /\ done /\ Matched(e, name) /\ stdout = <<e.v>>

====
